---- MODULE Spec2Model ----
(***************************************************************************)
(* State-machine model of the AgentCore vs LangChain comparison harness:   *)
(*   - the Lambda service handler (amplify/functions service handler),     *)
(*   - the frontend API clients (services-client, backend-client,          *)
(*     amplify-client, agentcore-client),                                  *)
(*   - the chat window widget (React state + react-query mutations).       *)
(* Each part has its own specification; the variables of the other parts   *)
(* stay at their initial values.                                           *)
(***************************************************************************)
EXTENDS Integers, Sequences, FiniteSets, TLC

VARIABLES
    lEvent,     \* Lambda: the event of the invocation in progress
    lPc,        \* Lambda: position of the handler
    lBedrock,   \* Lambda: outcomes of the Bedrock SDK calls of this invocation
    lContent,   \* Lambda: contents returned by callBedrock so far
    lResp,      \* Lambda: the LambdaResponse returned (NoResponse before)
    aEnv,       \* API clients: build-time configuration (environment variables)
    aOp,        \* API clients: the public operation in progress
    calls,      \* API clients: the HTTP-call functions running for the operation
    sent,       \* API clients: the requests handed to fetch during the operation
    aResult,    \* API clients: the promise the operation returned
    chatInput,  \* chat window: the ChatInput component the build imports
    mounted,    \* chat window: the component has mounted (first effect ran)
    sessionId,  \* chat window: useState sessionId (NullSession for null)
    agentType,  \* chat window: useState agentType
    messages,   \* chat window: useState messages
    creates,    \* chat window: the createSession mutations, oldest first
    sends,      \* chat window: the sendMessage mutations, oldest first
    sessions,   \* backend: agent_type of each session POST /sessions created
    posts,      \* backend: the POST /sessions/{id}/messages requests received
    stale,      \* history: the sends issued before the latest reset of the list
    lastSubmit  \* history: what the latest submit of the chat input did

lambdaVars == <<lEvent, lPc, lBedrock, lContent, lResp>>

apiVars == <<aEnv, aOp, calls, sent, aResult>>

chatVars ==
    <<chatInput, mounted, sessionId, agentType, messages, creates, sends, sessions, posts,
      stale, lastSubmit>>

vars == <<lambdaVars, apiVars, chatVars>>

None == "none"

(***************************************************************************)
(* Lambda service handler                                                  *)
(***************************************************************************)

\* A path is the sequence of its segments: "/services/memory/execute" is
\* <<"services", "memory", "execute">> and "/" is <<>>.
Paths ==
    { <<>>,
      <<"health">>,
      <<"other">>,
      <<"execute">>,
      <<"services", "memory", "info">>,
      <<"services", "memory", "execute">>,
      <<"services", "runtime", "compare">>,
      <<"services", "gateway", "execute", "health">> }

\* An absent (undefined) path field of the event
NoPath == <<None>>

\* What JSON.parse makes of the request body: a ServiceExecuteRequest with
\* agent_type strands / langchain / no agent_type, the JSON value null, or a
\* text that is not JSON.
BodyJson == {"strands", "langchain", "noagent", "null", "invalid"}

\* event.body: absent, the empty string, or a text in one of two encodings.
Bodies ==
    {[enc |-> None, json |-> None], [enc |-> "empty", json |-> None]}
    \cup [enc : {"plain", "b64"}, json : BodyJson]

Events ==
    [ rcMethod : {None, "POST", "OPTIONS"},
      httpMethod : {None, "GET", "POST"},
      rcPath : {NoPath} \cup Paths,
      rawPath : {NoPath, <<"services", "memory", "execute">>},
      path : {NoPath, <<"health">>},
      body : Bodies,
      isBase64Encoded : BOOLEAN,
      modelIdEnv : BOOLEAN ]

CorsHeaders ==
    { "Content-Type", "Access-Control-Allow-Origin",
      "Access-Control-Allow-Methods", "Access-Control-Allow-Headers" }

\* event.requestContext?.http?.method || event.httpMethod || 'GET'
Method(e) ==
    IF e.rcMethod # None THEN e.rcMethod
    ELSE IF e.httpMethod # None THEN e.httpMethod
    ELSE "GET"

\* event.requestContext?.http?.path || event.rawPath || event.path || '/'
Path(e) ==
    IF e.rcPath # NoPath THEN e.rcPath
    ELSE IF e.rawPath # NoPath THEN e.rawPath
    ELSE IF e.path # NoPath THEN e.path
    ELSE <<>>

\* path.includes('/' + seg), on the segment sequence
PathIncludes(p, seg) == \E i \in 1..Len(p) : p[i] = seg

\* path.endsWith('/health') || path === '/'
IsHealthPath(p) == p = <<>> \/ (Len(p) > 0 /\ p[Len(p)] = "health")

\* path.split('/services/')[1]?.split('/')[0] || 'runtime'
ServiceName(p) ==
    LET idx == {i \in 1..Len(p) : p[i] = "services" /\ i < Len(p)}
    IN  IF idx = {} THEN "runtime"
        ELSE p[(CHOOSE i \in idx : \A j \in idx : i <= j) + 1]

\* The parsed body of the event: None for undefined (no body, or the empty
\* string), "throws" when JSON.parse throws. A base64 text read as plain text,
\* or a plain text decoded from base64, is not JSON.
ParseBody(e) ==
    IF e.body.enc \in {None, "empty"} THEN None
    ELSE IF e.isBase64Encoded # (e.body.enc = "b64") THEN "throws"
    ELSE IF e.body.json = "invalid" THEN "throws"
    ELSE e.body.json

\* `body` as a condition: undefined and null are falsy
BodyTruthy(b) == b \in {"strands", "langchain", "noagent"}

\* callBedrock: the text of the model, a fixed text when the output holds no
\* text, and an error text (not an exception) when the SDK call throws.
CallBedrock(outcome) ==
    CASE outcome = "text" -> "model text"
      [] outcome = "empty" -> "No response generated."
      [] outcome = "throw" -> "Error calling Bedrock"

\* JSON.stringify of the metadata of an execute response: a field whose value
\* is undefined is left out.
ExecuteMetadataFields(e, b) ==
    {"service"}
    \cup (IF b \in {"strands", "langchain"} THEN {"agent_type"} ELSE {})
    \cup (IF e.modelIdEnv THEN {"model_id"} ELSE {})

\* A response whose headers lack the CORS headers
ResponseWithoutCors(status, kind, fields, meta, svc, content) ==
    [ statusCode |-> status, headers |-> {"Content-Type"}, kind |-> kind,
      fields |-> fields, metadata |-> meta, service |-> svc,
      content |-> content ]

\* return { statusCode, headers, body }, with the CORS headers of the handler
Response(status, kind, fields, meta, svc, content) ==
    [ statusCode |-> status, headers |-> CorsHeaders, kind |-> kind,
      fields |-> fields, metadata |-> meta, service |-> svc,
      content |-> content ]

\* No response yet: the handler has not returned
NoResponse == Response(0, None, {}, {}, None, <<>>)

\* The event before the first invocation
NoEvent ==
    [ rcMethod |-> None, httpMethod |-> None, rcPath |-> NoPath,
      rawPath |-> NoPath, path |-> NoPath,
      body |-> [enc |-> None, json |-> None],
      isBase64Encoded |-> FALSE, modelIdEnv |-> FALSE ]

\* The response of the execute branch, once callBedrock has returned
ExecuteResponse(e, b, content) ==
    Response(200, "execute",
             {"response_id", "content", "latency_ms", "metadata",
              "framework_features"},
             ExecuteMetadataFields(e, b), ServiceName(Path(e)), content)

\* The response of the compare branch, once both callBedrock have returned
CompareResponse(contents) ==
    Response(200, "compare",
             {"strands_result", "langchain_result", "comparison"},
             {}, None, contents)

\* The handler up to its first await or its return: the statement it stops at
\* ("execute" / "compare": awaiting callBedrock) or the response it returns.
Route(e) ==
    LET m == Method(e)
        p == Path(e)
        b == ParseBody(e)
    IN  IF m = "OPTIONS"
          THEN [pc |-> "done", resp |-> Response(200, "preflight", {}, {}, None, <<>>)]
        ELSE IF b = "throws"
          THEN [pc |-> "done", resp |-> Response(500, "error", {"error"}, {}, None, <<>>)]
        ELSE IF IsHealthPath(p)
          THEN [pc |-> "done",
                resp |-> Response(200, "health", {"status", "version", "path"}, {}, None, <<>>)]
        ELSE IF PathIncludes(p, "info") /\ m = "GET"
          THEN [pc |-> "done",
                resp |-> Response(200, "info",
                                  {"service", "description", "supported_agents",
                                   "strands_features", "langchain_features",
                                   "comparison_available"}, {}, ServiceName(p), <<>>)]
        ELSE IF PathIncludes(p, "execute") /\ m = "POST" /\ BodyTruthy(b)
          THEN [pc |-> "execute", resp |-> NoResponse]
        ELSE IF PathIncludes(p, "compare") /\ m = "POST" /\ BodyTruthy(b)
          THEN [pc |-> "compare_strands", resp |-> NoResponse]
        ELSE [pc |-> "done",
              resp |-> Response(404, "notfound", {"error", "path", "method"}, {}, None, <<>>)]

InitLambda ==
    /\ lEvent = NoEvent
    /\ lPc = "idle"
    /\ lBedrock = <<>>
    /\ lContent = <<>>
    /\ lResp = NoResponse

\* The Lambda runtime invokes the handler with an event. The handler keeps no
\* state between invocations, so one invocation per behaviour covers them all.
LambdaInvoke ==
    /\ lPc = "idle"
    /\ \E e \in Events :
         /\ lEvent' = e
         /\ lPc' = Route(e).pc
         /\ lResp' = Route(e).resp
    /\ lBedrock' = <<>>
    /\ lContent' = <<>>
    /\ UNCHANGED <<apiVars, chatVars>>

\* callBedrock of the execute branch returns and the handler builds its response
LambdaExecuteReturn ==
    /\ lPc = "execute"
    /\ \E outcome \in {"text", "empty", "throw"} :
         /\ lBedrock' = Append(lBedrock, outcome)
         /\ lContent' = Append(lContent, CallBedrock(outcome))
         /\ lResp' = ExecuteResponse(lEvent, ParseBody(lEvent),
                                     <<CallBedrock(outcome)>>)
    /\ lPc' = "done"
    /\ UNCHANGED lEvent
    /\ UNCHANGED <<apiVars, chatVars>>

\* the first callBedrock of the compare branch returns (Strands prompt)
LambdaCompareStrandsReturn ==
    /\ lPc = "compare_strands"
    /\ \E outcome \in {"text", "empty", "throw"} :
         /\ lBedrock' = Append(lBedrock, outcome)
         /\ lContent' = Append(lContent, CallBedrock(outcome))
    /\ lPc' = "compare_langchain"
    /\ UNCHANGED <<lEvent, lResp>>
    /\ UNCHANGED <<apiVars, chatVars>>

\* the second callBedrock of the compare branch returns (LangChain prompt)
LambdaCompareLangchainReturn ==
    /\ lPc = "compare_langchain"
    /\ \E outcome \in {"text", "empty", "throw"} :
         /\ lBedrock' = Append(lBedrock, outcome)
         /\ lContent' = Append(lContent, CallBedrock(outcome))
         /\ lResp' = CompareResponse(Append(lContent, CallBedrock(outcome)))
    /\ lPc' = "done"
    /\ UNCHANGED lEvent
    /\ UNCHANGED <<apiVars, chatVars>>

NextLambda ==
    \/ LambdaInvoke
    \/ LambdaExecuteReturn
    \/ LambdaCompareStrandsReturn
    \/ LambdaCompareLangchainReturn

(***************************************************************************)
(* Frontend API clients                                                    *)
(***************************************************************************)

CallIds == {1, 2}

\* The HTTP-call functions of the clients
ServiceApiFn == "callServiceApi"              \* services-client.ts
ServiceApiSimpleFn == "callServiceApiSimple"  \* services-client.ts
LangChainApiFn == "callLangChainApi"          \* backend-client.ts
BackendApiFn == "callBackendApi"              \* backend-client.ts
AuthApiFn == "authenticatedApiClient"         \* amplify-client.ts
AgentCoreFn == "invokeAgentCore"              \* agentcore-client.ts
AgentCoreChatFn == "agentCoreChatApi.send"    \* agentcore-client.ts
ApiClientFn == "apiClient"                    \* client.ts

\* Metadata of a backend response: a partial map from keys to values. The
\* Lambda handler answers service = the path's service name ("runtime"), the
\* container services answer "agentcore" or "langchain", and metadata may be
\* missing altogether.
NoMetadata == [k \in {} |-> None]

BackendMetadata ==
    { NoMetadata,
      [k \in {"framework"} |-> "langgraph"] }
    \cup { [k \in {"service", "framework"} |->
              IF k = "service" THEN sv ELSE "langgraph"] :
           sv \in {"agentcore", "langchain", "runtime"} }

\* Spread with the operands swapped: a's value where both have the key
SpreadFirstWins(a, b) ==
    [k \in DOMAIN a \cup DOMAIN b |-> IF k \in DOMAIN a THEN a[k] ELSE b[k]]

\* { ...a, ...b }: the keys of both, b's value where both have the key
Spread(a, b) ==
    [k \in DOMAIN a \cup DOMAIN b |-> IF k \in DOMAIN b THEN b[k] ELSE a[k]]

\* A call: its function, its backend, its position (idle, auth: awaiting
\* fetchAuthSession, fetching: awaiting fetch, body: awaiting response.json()
\* or response.text(), fulfilled, rejected), whether fetch gave it a response
\* and with which status, the status field of the error it threw (0: none)
\* and the metadata of the body it returned.
IdleCall ==
    [ fn |-> None, target |-> None, pc |-> "idle", responded |-> FALSE,
      status |-> 0, error |-> 0, metadata |-> NoMetadata ]

\* throw: the call's promise is rejected with an error of this status field
Reject(call, err) == [call EXCEPT !.pc = "rejected", !.error = err]

\* new URL(path, serviceConfig.url) in callServiceApi: the agentcore base is
\* NEXT_PUBLIC_AGENTCORE_URL or else the runtime ARN, which is no base URL
\* (new URL throws a TypeError).
ServiceUrlValid(env, service) ==
    service = "langchain" \/ env.agentcoreUrl

\* callServiceApi up to its first await (signRequest), or its synchronous throw
StartServiceCall(env, service) ==
    IF ServiceUrlValid(env, service)
    THEN [IdleCall EXCEPT !.fn = ServiceApiFn, !.target = service, !.pc = "auth"]
    ELSE Reject([IdleCall EXCEPT !.fn = ServiceApiFn, !.target = service], 0)

\* callServiceApiSimple up to its first await (fetch), or its synchronous throw
StartServiceSimpleCall(env, service) ==
    IF ServiceUrlValid(env, service)
    THEN [IdleCall EXCEPT !.fn = ServiceApiSimpleFn, !.target = service,
                          !.pc = "fetching"]
    ELSE Reject([IdleCall EXCEPT !.fn = ServiceApiSimpleFn,
                                 !.target = service], 0)

\* callLangChainApi up to its first await (signRequest); executeOnDeployedService
\* sends both agent types to the LangChain Lambda URL
StartLangChainCall(at) ==
    [IdleCall EXCEPT !.fn = LangChainApiFn, !.target = at, !.pc = "auth"]

\* callBackendApi up to its first await (fetch)
StartBackendCall ==
    [IdleCall EXCEPT !.fn = BackendApiFn, !.target = "backend", !.pc = "fetching"]

\* apiClient of client.ts up to its first await (fetch)
StartApiClientCall ==
    [IdleCall EXCEPT !.fn = ApiClientFn, !.target = "api", !.pc = "fetching"]

\* authenticatedApiClient up to its first await (getAuthToken)
StartAuthCall ==
    [IdleCall EXCEPT !.fn = AuthApiFn, !.target = "api", !.pc = "auth"]

\* invokeAgentCore / agentCoreChatApi.send up to the first await
\* (getAuthToken), or the throw of AgentCoreApiError(500, ...) when the
\* runtime ARN is not configured
StartAgentCoreCall(env, fn) ==
    IF env.runtimeArn
    THEN [IdleCall EXCEPT !.fn = fn, !.target = "agentcore", !.pc = "auth"]
    ELSE Reject([IdleCall EXCEPT !.fn = fn, !.target = "agentcore"], 500)

\* What fetchAuthSession gives a call: credentials and tokens ("ok"), a
\* session without them ("none"), or an exception ("throws")
AuthOutcomes == {"ok", "none", "throws"}

\* signRequest of services-client.ts: the signed request, or an exception
\* without credentials or when signing fails
SignRequestServices(auth) ==
    IF auth = "ok" THEN [throws |-> FALSE, signed |-> TRUE]
    ELSE [throws |-> TRUE, signed |-> FALSE]

\* signRequest of backend-client.ts: the signed request, or the request as it
\* was (unsigned) without credentials or when signing fails
SignRequestBackend(auth) ==
    [throws |-> FALSE, signed |-> auth = "ok"]

\* getAuthToken: the id token, or null without a session or tokens
GetAuthToken(auth) == IF auth = "ok" THEN "token" ELSE None

\* The headers authenticatedApiClient, invokeAgentCore and
\* agentCoreChatApi.send build: Authorization is set only `if (token)`
BearerHeader(token) == token # None

\* The request a function without an authentication step hands to fetch
\* (callServiceApiSimple, callBackendApi, apiClient): Content-Type only
PlainRequest(c, call) ==
    [ call |-> c, fn |-> call.fn, target |-> call.target, signed |-> FALSE,
      bearer |-> FALSE, attempt |-> 1 ]

\* The request a call hands to fetch after its authentication step (send =
\* FALSE: the call throws instead)
BuildRequest(c, call, auth) ==
    CASE call.fn = ServiceApiFn ->
           [ send |-> ~SignRequestServices(auth).throws,
             req |-> [call |-> c, fn |-> call.fn, target |-> call.target,
                      signed |-> SignRequestServices(auth).signed,
                      bearer |-> FALSE, attempt |-> 1] ]
      [] call.fn = LangChainApiFn ->
           [ send |-> ~SignRequestBackend(auth).throws,
             req |-> [call |-> c, fn |-> call.fn, target |-> call.target,
                      signed |-> SignRequestBackend(auth).signed,
                      bearer |-> FALSE, attempt |-> 1] ]
      [] OTHER ->
           [ send |-> TRUE,
             req |-> [call |-> c, fn |-> call.fn, target |-> call.target,
                      signed |-> FALSE,
                      bearer |-> BearerHeader(GetAuthToken(auth)),
                      attempt |-> 1] ]

\* What fetch gives a call: a response with a status, or a network failure (0)
FetchOutcomes == {200, 401, 500, 0}

\* What reading the body of a response gives: a JSON object, the JSON value
\* null, a text that is no JSON (an HTML error page, an empty body), or a
\* failure of the read itself
BodyOutcomes == {"json", "null", "text", "fails"}

\* The status field of the error thrown for a response that is not ok:
\* callServiceApi and callServiceApiSimple throw a plain Error (no status
\* field), the other clients their ApiError with response.status
HttpError(fn, status) ==
    IF fn \in {ServiceApiFn, ServiceApiSimpleFn} THEN 0 ELSE status

\* The status field of the error when fetch or the body read fails:
\* callBackendApi wraps it in BackendApiError(500, 'Network Error'), the
\* other clients let the TypeError / SyntaxError through
FailureError(fn) == IF fn = BackendApiFn THEN 500 ELSE 0

\* The call after `await fetch`: a network failure rejects it; with a
\* response it goes on to read the body. No client reads the status to
\* refresh the token or to send again.
AfterFetch(call, status) ==
    IF status = 0 THEN Reject(call, FailureError(call.fn))
    ELSE [call EXCEPT !.pc = "body", !.responded = TRUE, !.status = status]

\* The call after its body read: `await response.text()` and a throw when
\* !response.ok, else `response.json()`. A JSON null passes response.json(),
\* and the functions that read a field of the parsed value right away
\* (executeOnDeployedService: response.response_id, invokeAgentCore and
\* agentCoreChatApi.send: data.output) throw a TypeError on it.
AfterBody(call, body, md) ==
    IF body = "fails" THEN Reject(call, FailureError(call.fn))
    ELSE IF call.status # 200 THEN Reject(call, HttpError(call.fn, call.status))
    ELSE IF body = "text" THEN Reject(call, FailureError(call.fn))
    ELSE IF body = "null"
      THEN IF call.fn \in {LangChainApiFn, AgentCoreFn, AgentCoreChatFn}
           THEN Reject(call, 0)
           ELSE [call EXCEPT !.pc = "fulfilled"]
    ELSE [call EXCEPT !.pc = "fulfilled", !.metadata = md]

\* executeOnDeployedService: the ServiceExecuteResponse built from the
\* backend's response
ExecuteOnDeployedService(at, call) ==
    IF at = "langchain"
    THEN [ metadata |-> Spread(call.metadata,
                               [k \in {"service"} |-> "langchain"]),
           framework_features |-> "LangChain" ]
    ELSE [ metadata |-> Spread(call.metadata,
                               [k \in {"service"} |-> "agentcore"]),
           framework_features |-> "Strands Agents" ]

NoValue == [k \in {} |-> None]

Pending == [state |-> "pending", value |-> NoValue]

Settled(call) == call.pc \in {"fulfilled", "rejected"}

\* NEXT_PUBLIC_AGENTCORE_URL and NEXT_PUBLIC_AGENTCORE_RUNTIME_ARN: set or not
Envs == [agentcoreUrl : BOOLEAN, runtimeArn : BOOLEAN]

InitApi ==
    /\ aEnv \in Envs
    /\ aOp = [name |-> None, agentType |-> None]
    /\ calls = [c \in CallIds |-> IdleCall]
    /\ sent = {}
    /\ aResult = [state |-> None, value |-> NoValue]

OpIdle == aOp.name = None

\* compareServices awaiting the first chat before it calls the second
StartCompareServicesSequential ==
    /\ aOp.name = None
    /\ aOp' = [name |-> "compareServices", agentType |-> None]
    /\ calls' = [calls EXCEPT ![1] = StartServiceCall(aEnv, "agentcore")]
    /\ sent' = {}
    /\ aResult' = [state |-> "pending", value |-> [k \in {} |-> None]]
    /\ UNCHANGED aEnv
    /\ UNCHANGED <<lambdaVars, chatVars>>

\* compareServices: Promise.all([chat("agentcore"), chat("langchain")])
StartCompareServices ==
    /\ OpIdle
    /\ aOp' = [name |-> "compareServices", agentType |-> None]
    /\ calls' = [c \in CallIds |->
                   IF c = 1 THEN StartServiceCall(aEnv, "agentcore")
                   ELSE StartServiceCall(aEnv, "langchain")]
    /\ sent' = {}
    /\ aResult' = Pending
    /\ UNCHANGED aEnv
    /\ UNCHANGED <<lambdaVars, chatVars>>

\* checkAllServices: Promise.allSettled([healthCheck("agentcore"),
\* healthCheck("langchain")])
StartCheckAllServices ==
    /\ OpIdle
    /\ aOp' = [name |-> "checkAllServices", agentType |-> None]
    /\ calls' = [c \in CallIds |->
                   IF c = 1 THEN StartServiceCall(aEnv, "agentcore")
                   ELSE StartServiceCall(aEnv, "langchain")]
    /\ sent' = {}
    /\ aResult' = Pending
    /\ UNCHANGED aEnv
    /\ UNCHANGED <<lambdaVars, chatVars>>

\* compare of a service API: Promise.allSettled of two executeOnDeployedService
StartCompare ==
    /\ OpIdle
    /\ aOp' = [name |-> "compare", agentType |-> None]
    /\ calls' = [c \in CallIds |->
                   IF c = 1 THEN StartLangChainCall("strands")
                   ELSE StartLangChainCall("langchain")]
    /\ sent' = {}
    /\ aResult' = Pending
    /\ UNCHANGED aEnv
    /\ UNCHANGED <<lambdaVars, chatVars>>

\* execute (and executeWithTools) of a service API: executeOnDeployedService(data)
StartExecute ==
    /\ OpIdle
    /\ \E at \in {"strands", "langchain"} :
         /\ aOp' = [name |-> "execute", agentType |-> at]
         /\ calls' = [calls EXCEPT ![1] = StartLangChainCall(at)]
    /\ sent' = {}
    /\ aResult' = Pending
    /\ UNCHANGED aEnv
    /\ UNCHANGED <<lambdaVars, chatVars>>

\* chat(service, request) of services-client.ts; chatWithTools, healthCheck
\* and getServiceInfo make the same single callServiceApi call
StartChat ==
    /\ OpIdle
    /\ \E sv \in {"agentcore", "langchain"} :
         /\ aOp' = [name |-> "chat", agentType |-> sv]
         /\ calls' = [calls EXCEPT ![1] = StartServiceCall(aEnv, sv)]
    /\ sent' = {}
    /\ aResult' = Pending
    /\ UNCHANGED aEnv
    /\ UNCHANGED <<lambdaVars, chatVars>>

\* chatSimple(service, request): callServiceApiSimple, no fetchAuthSession and
\* no signature; the request goes to fetch within the call
StartChatSimple ==
    /\ OpIdle
    /\ \E sv \in {"agentcore", "langchain"} :
         LET call == StartServiceSimpleCall(aEnv, sv)
         IN  /\ aOp' = [name |-> "chatSimple", agentType |-> sv]
             /\ calls' = [calls EXCEPT ![1] = call]
             /\ sent' = IF call.pc = "fetching" THEN {PlainRequest(1, call)}
                        ELSE {}
    /\ aResult' = Pending
    /\ UNCHANGED aEnv
    /\ UNCHANGED <<lambdaVars, chatVars>>

\* callBackendApi(endpoint), also through backendHealthApi and backendAgentApi
StartCallBackendApi ==
    /\ OpIdle
    /\ aOp' = [name |-> BackendApiFn, agentType |-> None]
    /\ calls' = [calls EXCEPT ![1] = StartBackendCall]
    /\ sent' = {PlainRequest(1, StartBackendCall)}
    /\ aResult' = Pending
    /\ UNCHANGED aEnv
    /\ UNCHANGED <<lambdaVars, chatVars>>

\* apiClient(endpoint, options) of client.ts, also through its sessionApi,
\* agentApi, healthApi and service APIs
StartApiClient ==
    /\ OpIdle
    /\ aOp' = [name |-> ApiClientFn, agentType |-> None]
    /\ calls' = [calls EXCEPT ![1] = StartApiClientCall]
    /\ sent' = {PlainRequest(1, StartApiClientCall)}
    /\ aResult' = Pending
    /\ UNCHANGED aEnv
    /\ UNCHANGED <<lambdaVars, chatVars>>

\* authenticatedApiClient(endpoint, options)
StartAuthenticatedApi ==
    /\ OpIdle
    /\ aOp' = [name |-> AuthApiFn, agentType |-> None]
    /\ calls' = [calls EXCEPT ![1] = StartAuthCall]
    /\ sent' = {}
    /\ aResult' = Pending
    /\ UNCHANGED aEnv
    /\ UNCHANGED <<lambdaVars, chatVars>>

\* invokeAgentCore(action, payload, sessionId)
StartInvokeAgentCore ==
    /\ OpIdle
    /\ aOp' = [name |-> AgentCoreFn, agentType |-> None]
    /\ calls' = [calls EXCEPT ![1] = StartAgentCoreCall(aEnv, AgentCoreFn)]
    /\ sent' = {}
    /\ aResult' = Pending
    /\ UNCHANGED aEnv
    /\ UNCHANGED <<lambdaVars, chatVars>>

\* agentCoreChatApi.send(prompt, sessionId)
StartAgentCoreChatSend ==
    /\ OpIdle
    /\ aOp' = [name |-> AgentCoreChatFn, agentType |-> None]
    /\ calls' = [calls EXCEPT ![1] = StartAgentCoreCall(aEnv, AgentCoreChatFn)]
    /\ sent' = {}
    /\ aResult' = Pending
    /\ UNCHANGED aEnv
    /\ UNCHANGED <<lambdaVars, chatVars>>

\* A call's fetchAuthSession settles: the call signs or builds its headers and
\* hands the request to fetch, or throws
CallAuth(c) ==
    /\ calls[c].pc = "auth"
    /\ \E auth \in AuthOutcomes :
         LET b == BuildRequest(c, calls[c], auth)
         IN  IF b.send
             THEN /\ sent' = sent \cup {b.req}
                  /\ calls' = [calls EXCEPT ![c].pc = "fetching"]
             ELSE /\ sent' = sent
                  /\ calls' = [calls EXCEPT ![c] = Reject(calls[c], 0)]
    /\ UNCHANGED <<aEnv, aOp, aResult>>
    /\ UNCHANGED <<lambdaVars, chatVars>>

\* A call's fetch settles: `await fetch(...)` returns the response or throws
CallFetched(c) ==
    /\ calls[c].pc = "fetching"
    /\ \E status \in FetchOutcomes :
         calls' = [calls EXCEPT ![c] = AfterFetch(calls[c], status)]
    /\ UNCHANGED <<aEnv, aOp, sent, aResult>>
    /\ UNCHANGED <<lambdaVars, chatVars>>

\* A call's body read settles: `await response.text()` / `response.json()`
CallBodyRead(c) ==
    /\ calls[c].pc = "body"
    /\ \E body \in BodyOutcomes, md \in BackendMetadata :
         calls' = [calls EXCEPT ![c] = AfterBody(calls[c], body, md)]
    /\ UNCHANGED <<aEnv, aOp, sent, aResult>>
    /\ UNCHANGED <<lambdaVars, chatVars>>

\* Promise.all of compareServices: rejected as soon as one call is rejected,
\* fulfilled when both are fulfilled
SettleCompareServices ==
    /\ aOp.name = "compareServices"
    /\ aResult.state = "pending"
    /\ \/ /\ \E c \in CallIds : calls[c].pc = "rejected"
          /\ aResult' = [state |-> "rejected", value |-> NoValue]
       \/ /\ \A c \in CallIds : calls[c].pc = "fulfilled"
          /\ aResult' = [state |-> "fulfilled",
                         value |-> [k \in {"agentcore", "langchain"} |-> "response"]]
    /\ UNCHANGED <<aEnv, aOp, calls, sent>>
    /\ UNCHANGED <<lambdaVars, chatVars>>

\* The value checkAllServices returns: per service the health response, or
\* { error } for a call that was rejected
CheckAllServicesResult(cs) ==
    [ k \in {"agentcore", "langchain"} |->
        LET c == IF k = "agentcore" THEN 1 ELSE 2
        IN  IF cs[c].pc = "fulfilled" THEN "health" ELSE "error" ]

\* Promise.allSettled of checkAllServices: fulfilled when both calls have
\* settled
SettleCheckAllServices ==
    /\ aOp.name = "checkAllServices"
    /\ aResult.state = "pending"
    /\ \A c \in CallIds : Settled(calls[c])
    /\ aResult' = [state |-> "fulfilled", value |-> CheckAllServicesResult(calls)]
    /\ UNCHANGED <<aEnv, aOp, calls, sent>>
    /\ UNCHANGED <<lambdaVars, chatVars>>

\* compare with the langchain flag copied into strands_success
CompareResultCopiedFlag(cs) ==
    [ strands_result |-> cs[1].pc = "fulfilled",
      langchain_result |-> cs[2].pc = "fulfilled",
      strands_success |-> cs[2].pc = "fulfilled",
      langchain_success |-> cs[2].pc = "fulfilled" ]

\* The ServiceComparisonResult compare builds once both calls have settled
CompareResult(cs) ==
    [ strands_result |-> cs[1].pc = "fulfilled",
      langchain_result |-> cs[2].pc = "fulfilled",
      strands_success |-> cs[1].pc = "fulfilled",
      langchain_success |-> cs[2].pc = "fulfilled" ]

\* Promise.allSettled of compare: fulfilled when both calls have settled
SettleCompare ==
    /\ aOp.name = "compare"
    /\ aResult.state = "pending"
    /\ \A c \in CallIds : Settled(calls[c])
    /\ aResult' = [state |-> "fulfilled", value |-> CompareResult(calls)]
    /\ UNCHANGED <<aEnv, aOp, calls, sent>>
    /\ UNCHANGED <<lambdaVars, chatVars>>

\* The operations that make a single call and return its promise
SingleCallOps ==
    { "execute", "chat", "chatSimple", BackendApiFn, ApiClientFn, AuthApiFn,
      AgentCoreFn, AgentCoreChatFn }

\* The promise of a single-call operation settles with its call
SettleSingle ==
    /\ aOp.name \in SingleCallOps
    /\ aResult.state = "pending"
    /\ Settled(calls[1])
    /\ aResult' =
         IF calls[1].pc = "rejected"
           THEN [state |-> "rejected", value |-> NoValue]
         ELSE IF aOp.name = "execute"
           THEN [state |-> "fulfilled",
                 value |-> ExecuteOnDeployedService(aOp.agentType, calls[1])]
         ELSE IF aOp.name = AgentCoreChatFn
           THEN [state |-> "fulfilled",
                 value |-> [k \in {"content", "timestamp"} |-> "value"]]
         ELSE [state |-> "fulfilled", value |-> [k \in {"metadata"} |-> calls[1].metadata]]
    /\ UNCHANGED <<aEnv, aOp, calls, sent>>
    /\ UNCHANGED <<lambdaVars, chatVars>>

\* The caller has its result and every call has ended: the next operation may start
OpDone ==
    /\ aOp.name # None
    /\ aResult.state \in {"fulfilled", "rejected"}
    /\ \A c \in CallIds : calls[c].pc \in {"idle", "fulfilled", "rejected"}
    /\ aOp' = [name |-> None, agentType |-> None]
    /\ calls' = [c \in CallIds |-> IdleCall]
    /\ sent' = {}
    /\ aResult' = [state |-> None, value |-> NoValue]
    /\ UNCHANGED aEnv
    /\ UNCHANGED <<lambdaVars, chatVars>>

NextApi ==
    \/ StartCompareServices
    \/ StartCheckAllServices
    \/ StartCompare
    \/ StartExecute
    \/ StartChat
    \/ StartChatSimple
    \/ StartCallBackendApi
    \/ StartApiClient
    \/ StartAuthenticatedApi
    \/ StartInvokeAgentCore
    \/ StartAgentCoreChatSend
    \/ \E c \in CallIds : CallAuth(c)
    \/ \E c \in CallIds : CallFetched(c)
    \/ \E c \in CallIds : CallBodyRead(c)
    \/ SettleCompareServices
    \/ SettleCheckAllServices
    \/ SettleCompare
    \/ SettleSingle
    \/ OpDone

(***************************************************************************)
(* Chat window (widgets/chat-window) and chat input (send-message/ui)      *)
(***************************************************************************)

\* Bounds of the model: how many createSession and sendMessage mutations a
\* behaviour starts
MaxCreates == 3
MaxSends == 3

\* useState<string | null>(null): the null session id; the backend's session
\* ids are 1, 2, ...
NullSession == 0

AgentTypes == {"strands", "langchain"}

\* The repository holds two ChatInput components. "form" is
\* features/send-message/ui/chat-input.tsx, the file the import of the chat
\* window (line 6) names: props onSend and isLoading only. "textarea" is the
\* component of part_015, which takes the disabled and placeholder props the
\* chat window passes. A build binds the import to one of them.
ChatInputs == {"form", "textarea"}

\* The text the user submits: a blank text, and a text with surrounding blanks
Contents == {" ", " hi "}

\* String.prototype.trim on the texts of Contents and on their trimmed forms
Trim(s) ==
    CASE s = " " -> ""
      [] s = " hi " -> "hi"
      [] OTHER -> s

\* agent_id of a CreateSessionResponse: never a session id
AgentId(at) == IF at = "strands" THEN -1 ELSE -2

\* createSession.isPending / sendMessage.isPending: the state of the latest
\* mutation of the observer
IsPending(muts) == Len(muts) > 0 /\ muts[Len(muts)].status = "pending"

\* The `disabled` prop ChatWindow gives ChatInput
InputDisabled == sessionId = NullSession \/ IsPending(creates)

\* ChatInput.handleSend's condition (part_015):
\* message.trim() && !isLoading && !disabled
ChatInputCanSend(message, isLoading, disabled) ==
    Trim(message) # "" /\ ~isLoading /\ ~disabled

\* The text ChatInput.handleSend (part_015) gives onSend: message.trim()
ChatInputText(message) == Trim(message)

\* ChatInput.handleSubmit's condition (chat-input.tsx): it returns
\* `if (!content.trim() || isLoading)`; the component has no disabled prop
ChatInputFormCanSend(content, isLoading) ==
    Trim(content) # "" /\ ~isLoading

\* The text ChatInput.handleSubmit (chat-input.tsx) gives onSend: content
ChatInputFormText(content) == content

\* ChatWindow.handleSend's condition: content.trim()
HandleSendMutates(content) == Trim(content) # ""

\* sendMessage.mutationFn: throws without a session, else calls
\* authenticatedSessionApi.sendMessage with the session id of this render,
\* which builds the endpoint /sessions/{id}/messages at once
SendMutationFn(sid) ==
    IF sid = NullSession THEN [throws |-> TRUE, post |-> NullSession]
    ELSE [throws |-> FALSE, post |-> sid]

\* onSuccess storing the wrong field of the response
CreateOnSuccessAgentId(data) == data.agent_id

\* createSession.onSuccess: the session id the window stores
CreateOnSuccessSessionId(data) == data.session_id

\* sendMessage.onMutate: the optimistic user message is appended
SendOnMutate(msgs, n) == Append(msgs, [role |-> "user", send |-> n])

\* sendMessage.onSuccess: the assistant message is appended
SendOnSuccess(msgs, n) == Append(msgs, [role |-> "assistant", send |-> n])

\* onError dropping two messages: prev.slice(0, -2)
SendOnErrorDropsTwo(msgs) == SubSeq(msgs, 1, Len(msgs) - 2)

\* sendMessage.onError: prev.slice(0, -1)
SendOnError(msgs) == SubSeq(msgs, 1, Len(msgs) - 1)

InitChat ==
    /\ chatInput \in ChatInputs
    /\ mounted = FALSE
    /\ sessionId = NullSession
    /\ agentType = "strands"
    /\ messages = <<>>
    /\ creates = <<>>
    /\ sends = <<>>
    /\ sessions = <<>>
    /\ posts = {}
    /\ stale = {}
    /\ lastSubmit = None

\* createSession.mutate(): mutationFn posts /sessions with the agent type of
\* the current render
CreateSessionMutate ==
    creates' = Append(creates, [status |-> "pending", agent_type |-> agentType])

\* useEffect(() => { if (!sessionId) createSession.mutate() }, [])
Mount ==
    /\ ~mounted
    /\ mounted' = TRUE
    /\ Len(creates) < MaxCreates
    /\ IF sessionId = NullSession THEN CreateSessionMutate
       ELSE UNCHANGED creates
    /\ UNCHANGED <<sessionId, agentType, messages, sends, sessions, posts,
                   stale, lastSubmit>>
    /\ UNCHANGED <<lambdaVars, apiVars, chatInput>>

\* New Chat button (disabled while createSession.isPending): handleNewSession
HandleNewSession ==
    /\ mounted
    /\ ~IsPending(creates)
    /\ Len(creates) < MaxCreates
    /\ CreateSessionMutate
    /\ UNCHANGED <<mounted, sessionId, agentType, messages, sends, sessions,
                   posts, stale, lastSubmit>>
    /\ UNCHANGED <<lambdaVars, apiVars, chatInput>>

\* Agent type selector: handleAgentTypeChange(newType)
HandleAgentTypeChange ==
    /\ mounted
    /\ \E newType \in AgentTypes :
         IF newType # agentType
         THEN /\ agentType' = newType
              /\ sessionId' = NullSession
              /\ messages' = <<>>
              /\ stale' = 1..Len(sends)
         ELSE UNCHANGED <<agentType, sessionId, messages, stale>>
    /\ UNCHANGED <<mounted, creates, sends, sessions, posts, lastSubmit>>
    /\ UNCHANGED <<lambdaVars, apiVars, chatInput>>

\* POST /sessions of a pending createSession succeeds: the backend creates the
\* session with the posted agent_type; onSuccess stores its id and empties the
\* message list
CreateSessionSuccess ==
    /\ \E i \in 1..Len(creates) :
         /\ creates[i].status = "pending"
         /\ LET data == [ session_id |-> Len(sessions) + 1,
                          agent_id |-> AgentId(creates[i].agent_type),
                          agent_type |-> creates[i].agent_type ]
            IN  /\ sessions' = Append(sessions, data.agent_type)
                /\ sessionId' = CreateOnSuccessSessionId(data)
         /\ creates' = [creates EXCEPT ![i].status = "success"]
    /\ messages' = <<>>
    /\ stale' = 1..Len(sends)
    /\ UNCHANGED <<mounted, agentType, sends, posts, lastSubmit>>
    /\ UNCHANGED <<lambdaVars, apiVars, chatInput>>

\* POST /sessions of a pending createSession fails: onError only logs
CreateSessionError ==
    /\ \E i \in 1..Len(creates) :
         /\ creates[i].status = "pending"
         /\ creates' = [creates EXCEPT ![i].status = "error"]
    /\ UNCHANGED <<mounted, sessionId, agentType, messages, sends, sessions,
                   posts, stale, lastSubmit>>
    /\ UNCHANGED <<lambdaVars, apiVars, chatInput>>

\* sendMessage.mutate(instruction): onMutate appends the optimistic message,
\* then mutationFn runs. When it throws (no session) onError follows in the
\* same task, before any other callback: the mutation ends in error and no
\* request is made. Otherwise authenticatedApiClient is called with the
\* endpoint of the current session and stops at `await getAuthToken()`: the
\* mutation pends and no request has been made yet.
SendMessageMutate(instruction) ==
    LET n == Len(sends) + 1
        fn == SendMutationFn(sessionId)
    IN  IF fn.throws
        THEN /\ messages' = SendOnError(SendOnMutate(messages, n))
             /\ sends' = Append(sends, [ status |-> "error", threw |-> TRUE,
                                         posted |-> FALSE,
                                         session |-> fn.post,
                                         instruction |-> instruction ])
             /\ lastSubmit' = "threw"
        ELSE /\ messages' = SendOnMutate(messages, n)
             /\ sends' = Append(sends, [ status |-> "pending", threw |-> FALSE,
                                         posted |-> FALSE,
                                         session |-> fn.post,
                                         instruction |-> instruction ])
             /\ lastSubmit' = "sent"

\* ChatWindow.handleSend(content): if (content.trim()) sendMessage.mutate(content)
HandleSend(content) ==
    IF HandleSendMutates(content) THEN SendMessageMutate(content)
    ELSE /\ lastSubmit' = "blank"
         /\ UNCHANGED <<messages, sends>>

\* The user submits the textarea ChatInput of part_015 (Enter or the send
\* button): ChatInput.handleSend, then ChatWindow.handleSend
ChatInputHandleSend ==
    /\ chatInput = "textarea"
    /\ mounted
    /\ Len(sends) < MaxSends
    /\ \E message \in Contents :
         IF ChatInputCanSend(message, IsPending(sends), InputDisabled)
         THEN HandleSend(ChatInputText(message))
         ELSE /\ lastSubmit' = IF Trim(message) = "" THEN "blank"
                                ELSE IF IsPending(sends) THEN "loading"
                                ELSE IF sessionId = NullSession THEN "nosession"
                                ELSE "blocked"
              /\ UNCHANGED <<messages, sends>>
    /\ UNCHANGED <<mounted, sessionId, agentType, creates, sessions, posts,
                   stale>>
    /\ UNCHANGED <<lambdaVars, apiVars, chatInput>>

\* The user submits the form ChatInput of chat-input.tsx: ChatInput.handleSubmit,
\* then ChatWindow.handleSend
ChatInputHandleSubmit ==
    /\ chatInput = "form"
    /\ mounted
    /\ Len(sends) < MaxSends
    /\ \E content \in Contents :
         IF ChatInputFormCanSend(content, IsPending(sends))
         THEN HandleSend(ChatInputFormText(content))
         ELSE /\ lastSubmit' = IF Trim(content) = "" THEN "blank" ELSE "loading"
              /\ UNCHANGED <<messages, sends>>
    /\ UNCHANGED <<mounted, sessionId, agentType, creates, sessions, posts,
                   stale>>
    /\ UNCHANGED <<lambdaVars, apiVars, chatInput>>

\* getAuthToken of a pending sendMessage answers (with a token or with null):
\* authenticatedApiClient hands POST /sessions/{id}/messages to fetch, with
\* the endpoint and body built when sendMessage.mutate ran
SendMessagePost ==
    /\ \E n \in 1..Len(sends) :
         /\ sends[n].status = "pending"
         /\ ~sends[n].posted
         /\ sends' = [sends EXCEPT ![n].posted = TRUE]
         /\ posts' = posts \cup {[ session |-> sends[n].session, send |-> n,
                                   instruction |-> sends[n].instruction ]}
    /\ UNCHANGED <<mounted, sessionId, agentType, messages, creates, sessions,
                   stale, lastSubmit>>
    /\ UNCHANGED <<lambdaVars, apiVars, chatInput>>

\* The request of a pending sendMessage is answered: onSuccess
SendMessageSuccess ==
    /\ \E n \in 1..Len(sends) :
         /\ sends[n].status = "pending"
         /\ sends[n].posted
         /\ sends' = [sends EXCEPT ![n].status = "success"]
         /\ messages' = SendOnSuccess(messages, n)
    /\ UNCHANGED <<mounted, sessionId, agentType, creates, sessions, posts,
                   stale, lastSubmit>>
    /\ UNCHANGED <<lambdaVars, apiVars, chatInput>>

\* The request of a pending sendMessage fails (fetch throws, the status is
\* not ok, or the body is no JSON): onError. getAuthToken catches its own
\* errors, so nothing fails before the request is made.
SendMessageError ==
    /\ \E n \in 1..Len(sends) :
         /\ sends[n].status = "pending"
         /\ sends[n].posted
         /\ sends' = [sends EXCEPT ![n].status = "error"]
         /\ messages' = SendOnError(messages)
    /\ UNCHANGED <<mounted, sessionId, agentType, creates, sessions, posts,
                   stale, lastSubmit>>
    /\ UNCHANGED <<lambdaVars, apiVars, chatInput>>

NextChat ==
    \/ Mount
    \/ HandleNewSession
    \/ HandleAgentTypeChange
    \/ CreateSessionSuccess
    \/ CreateSessionError
    \/ ChatInputHandleSend
    \/ ChatInputHandleSubmit
    \/ SendMessagePost
    \/ SendMessageSuccess
    \/ SendMessageError

\* The API clients at rest, for the specifications of the other parts
InitApiAtRest ==
    /\ InitApi
    /\ aEnv = [agentcoreUrl |-> TRUE, runtimeArn |-> TRUE]

\* The chat window at rest, for the specifications of the other parts
InitChatAtRest ==
    /\ InitChat
    /\ chatInput = "form"

Init == InitLambda /\ InitApiAtRest /\ InitChatAtRest

\* The Lambda handler, one invocation per behaviour
SpecLambda == Init /\ [][NextLambda]_vars

\* The frontend API clients, one public operation at a time, under every
\* configuration of the two environment variables
InitAnyEnv == InitLambda /\ InitApi /\ InitChatAtRest

SpecApi == InitAnyEnv /\ [][NextApi]_vars

\* The chat window with its two mutations and the backend's sessions, under
\* either ChatInput component
InitAnyInput == InitLambda /\ InitApiAtRest /\ InitChat

SpecChat == InitAnyInput /\ [][NextChat]_vars

(***************************************************************************)
(* Properties                                                              *)
(***************************************************************************)

UnifiedFields == {"response_id", "content", "tool_calls", "latency_ms", "metadata"}

\* C1: every HTTP 200 response the Lambda handler returns from its execute
\* branch (a POST to an execute route) has a JSON body with the five fields
\* response_id, content, tool_calls, latency_ms and metadata.
C1_ExecuteResponseHasUnifiedFields ==
    ( /\ lPc = "done"
      /\ Method(lEvent) = "POST"
      /\ PathIncludes(Path(lEvent), "execute")
      /\ lResp.kind = "execute"
      /\ lResp.statusCode = 200 )
    => UnifiedFields \subseteq lResp.fields

\* C2: when the Bedrock SDK call of an execute request throws, the handler
\* answers with status 500, never 200.
C2_BedrockThrowGivesErrorStatus ==
    ( /\ lPc = "done"
      /\ Method(lEvent) = "POST"
      /\ PathIncludes(Path(lEvent), "execute")
      /\ \E i \in 1..Len(lBedrock) : lBedrock[i] = "throw" )
    => lResp.statusCode = 500

Other(c) == 3 - c

\* C3: in a comparison (compareServices, or compare of a service API), once
\* one backend call has received its response the other call has been started
\* (its function was called and runs, or has ended): both are started before
\* either response, and neither waits for the other.
C3_CompareStartsBothBeforeAnyResponse ==
    aOp.name \in {"compareServices", "compare"}
    => \A c \in CallIds : calls[c].responded => calls[Other(c)].pc # "idle"

\* C3 witness: compareServices has the LangChain response while the request
\* to the AgentCore backend is still in flight.
C3_Witness ==
    /\ aOp.name = "compareServices"
    /\ calls[2].responded
    /\ calls[1].pc = "fetching"

\* C4: the response execute returns has metadata.service naming the backend
\* the request's agent_type selects, whatever the backend's own metadata says.
C4_ExecuteMetadataServiceNamesBackend ==
    (aOp.name = "execute" /\ aResult.state = "fulfilled")
    => LET md == aResult.value.metadata
       IN  /\ "service" \in DOMAIN md
           /\ md["service"] =
                (IF aOp.agentType = "langchain" THEN "langchain" ELSE "agentcore")

\* C4 witness: execute with agent_type strands returned although the backend
\* answered metadata.service = "langchain".
C4_Witness ==
    /\ aOp.name = "execute"
    /\ aOp.agentType = "strands"
    /\ aResult.state = "fulfilled"
    /\ "service" \in DOMAIN calls[1].metadata
    /\ calls[1].metadata["service"] = "langchain"

\* C5: every request callLangChainApi or callServiceApi hands to fetch is
\* SigV4-signed; without credentials, or when signing fails, none is sent.
C5_EveryServiceRequestSigned ==
    \A r \in sent : r.fn \in {ServiceApiFn, LangChainApiFn} => r.signed

\* C6: every request authenticatedApiClient or invokeAgentCore hands to fetch
\* carries Authorization: Bearer <token>; without a token none is sent.
C6_EveryAuthRequestHasBearer ==
    \A r \in sent : r.fn \in {AuthApiFn, AgentCoreFn} => r.bearer

\* C7: a backend request answered with HTTP 401 is sent again (after a token
\* refresh): no call ends rejected by a 401 without a second attempt.
C7_Retry401 ==
    \A c \in CallIds :
        (calls[c].pc = "rejected" /\ calls[c].status = 401)
        => \E r \in sent : r.call = c /\ r.attempt > 1

\* C8: the chat window starts no message request while sessionId is null
\* (a send whose mutationFn ran without a session has no request, made or to
\* be made), and every POST /sessions/{id}/messages it issues uses a non-null
\* session id that an earlier successful POST /sessions returned.
C8_MessagePostsUseIssuedSession ==
    /\ \A p \in posts :
          p.session # NullSession /\ p.session \in 1..Len(sessions)
    /\ \A n \in 1..Len(sends) :
          IF sends[n].threw
          THEN /\ sends[n].status = "error"
               /\ \A p \in posts : p.send # n
          ELSE sends[n].session \in 1..Len(sessions)

\* C8 witness: a message was posted, and a later submit made while no session
\* exists reached sendMessage.mutate, whose mutationFn threw instead of
\* posting.
C8_Witness ==
    /\ posts # {}
    /\ sessionId = NullSession
    /\ lastSubmit = "threw"
    /\ sends[Len(sends)].threw
    /\ Cardinality(posts) < Len(sends)

\* C9: after a reset of the chat (New Chat succeeded, or the agent type was
\* switched) the message list holds no message of a send issued before it.
C9_NoMessageOfEarlierSend ==
    \A i \in 1..Len(messages) : messages[i].send \notin stale

\* C10: whenever sessionId is non-null, the session it names was created with
\* the agent type that is selected now.
C10_SessionMatchesAgentType ==
    sessionId # NullSession => sessions[sessionId] = agentType

\* The message list without the optimistic user message of send n
WithoutOwnMessage(msgs, n) ==
    LET Keep(m) == ~(m.role = "user" /\ m.send = n)
    IN  SelectSeq(msgs, Keep)

\* C11: when a send fails, the message list changes only by losing the
\* optimistic user message that this send appended; the rollback removes no
\* other message. A send whose request fails loses its message when the
\* failure arrives; a send whose mutationFn throws is appended and rolled
\* back within the submit, which leaves the list as it was.
C11_RollbackRemovesOnlyOwnMessage ==
    [][ /\ \A n \in 1..Len(sends) :
             (sends[n].status = "pending" /\ sends'[n].status = "error")
             => messages' = WithoutOwnMessage(messages, n)
        /\ ( /\ Len(sends') = Len(sends) + 1
             /\ sends'[Len(sends')].status = "error" )
           => messages' = messages ]_vars

\* C11 witness: the second send failed and its user message is gone, while
\* the two messages of the first send are still listed.
C11_Witness ==
    /\ Len(sends) >= 2
    /\ sends[2].status = "error"
    /\ messages = <<[role |-> "user", send |-> 1],
                    [role |-> "assistant", send |-> 1]>>

\* C12: after the user switches the agent type, a session for the new type is
\* eventually created and the input enabled again with no further user action.
\* Only the answer to a pending createSession sets sessionId, so the claim
\* needs that, whenever the mounted window has no session and no creation has
\* failed, a creation is in flight.
C12_SwitchLeadsToNewSession ==
    ( /\ mounted
      /\ sessionId = NullSession
      /\ \A i \in 1..Len(creates) : creates[i].status # "error" )
    => IsPending(creates)

\* The sendMessage mutations whose request is in flight
PendingSends == {n \in 1..Len(sends) : sends[n].status = "pending"}

\* C13: at most one sendMessage request is in flight at any time, and while a
\* send is pending or the input is disabled (no session, or a session being
\* created) no submit invokes onSend, so no new send starts.
C13_AtMostOneSendInFlight ==
    /\ [](Cardinality(PendingSends) <= 1)
    /\ [][(IsPending(sends) \/ InputDisabled) => Len(sends') = Len(sends)]_vars

\* C14: if exactly one of the two backend calls of compareServices fails (here:
\* its backend answers HTTP 500), the caller still receives the response of
\* the backend that succeeded.
C14_CompareServicesKeepsSuccessfulResponse ==
    ( /\ aOp.name = "compareServices"
      /\ aResult.state \in {"fulfilled", "rejected"}
      /\ \E c \in CallIds :
           /\ calls[c].pc = "fulfilled"
           /\ calls[Other(c)].pc = "rejected"
           /\ calls[Other(c)].status = 500 )
    => aResult.state = "fulfilled"

\* C15: compare of a service API never rejects, and for each framework its
\* result is present exactly when its success flag is true, the flag being
\* true exactly when that framework's call was fulfilled.
C15_CompareNeverRejects ==
    aOp.name = "compare"
    => /\ aResult.state # "rejected"
       /\ aResult.state = "fulfilled"
          => /\ aResult.value.strands_result = aResult.value.strands_success
             /\ aResult.value.langchain_result = aResult.value.langchain_success
             /\ aResult.value.strands_success = (calls[1].pc = "fulfilled")
             /\ aResult.value.langchain_success = (calls[2].pc = "fulfilled")

\* C15 witness: compare returned although the strands call failed and the
\* langchain call succeeded.
C15_Witness ==
    /\ aOp.name = "compare"
    /\ aResult.state = "fulfilled"
    /\ calls[1].pc = "rejected"
    /\ calls[2].pc = "fulfilled"

\* C16: for every event the handler returns a response (an exception thrown
\* while it routes, parses or calls Bedrock is turned into a response) whose
\* statusCode is 200, 404 or 500 and whose headers include the CORS headers.
C16_HandlerAlwaysAnswersWithCors ==
    /\ lPc \in {"idle", "execute", "compare_strands", "compare_langchain", "done"}
    /\ lPc = "done"
       => /\ lResp.statusCode \in {200, 404, 500}
          /\ CorsHeaders \subseteq lResp.headers

\* C16 witness: JSON.parse threw on the body of a POST to an execute route and
\* the handler answered 500 with the CORS headers.
C16_Witness ==
    /\ lPc = "done"
    /\ Method(lEvent) = "POST"
    /\ PathIncludes(Path(lEvent), "execute")
    /\ ParseBody(lEvent) = "throws"
    /\ lResp.statusCode = 500
    /\ CorsHeaders \subseteq lResp.headers

====
